---- MODULE Spec2Model ----
(***************************************************************************)
(* lan-mouse server (src/bin/server.rs): a Wayland client that locks the   *)
(* pointer when it enters its surface, relays every relative-motion event  *)
(* as a 20-byte UDP datagram, and drops the lock on the ESC key.           *)
(*                                                                         *)
(* The program is single threaded: the compositor appends events to the    *)
(* connection, blocking_dispatch reads what is there and runs one handler  *)
(* per event.  Requests to the compositor and datagrams are the outputs;   *)
(* they are counted / recorded here.                                       *)
(*                                                                         *)
(* Integers wider than TLC's are byte sequences, most significant first:   *)
(* a u32 is 4 bytes, a u64 and the bit pattern of an f64 are 8 bytes.      *)
(***************************************************************************)
EXTENDS Integers, Sequences, FiniteSets, TLC

VARIABLES
    pc,                  \* where main() is: roundtrip, loop, dispatch, exited, panicked
    running,             \* App.running
    queue,               \* events sent by the compositor, not yet handled
    last,                \* the event handled last
    batch,               \* events left to handle in the running blocking_dispatch call
    synced,              \* the compositor answered the roundtrip's sync
    announced,           \* interfaces the compositor has announced
    emitted,             \* events the compositor has sent that count against MaxEvents
    compositor,          \* App.compositor       (None or the bind that made it)
    buffer,              \* App.buffer
    wm_base,             \* App.wm_base
    surface,             \* App.surface
    xdg_surface,         \* App.xdg_surface
    top_level,           \* App.top_level
    mapped,              \* a buffer is attached to the surface and committed
    pointer_constraints, \* App.pointer_constraints
    rel_pointer_manager, \* App.rel_pointer_manager
    pointer_lock,        \* App.pointer_lock     (None or the lock request that made it)
    rel_pointer,         \* App.rel_pointer
    surface_coords,      \* App.surface_coords
    binds,               \* bind requests issued, per interface
    pointers,            \* get_pointer requests issued
    keyboards,           \* get_keyboard requests issued
    lockReqs,            \* lock_pointer requests issued
    relReqs,             \* get_relative_pointer requests issued
    lockDestroys,        \* zwp_locked_pointer_v1.destroy requests issued
    relDestroys,         \* zwp_relative_pointer_v1.destroy requests issued
    enters,              \* pointer-enter events handled
    sent,                \* datagrams handed to the socket, in order
    sendResult,          \* outcome of the last send_to: none, ok, err
    endian               \* byte order of the target the program was built for

envVars  == <<synced, announced, emitted, endian>>
capVars  == <<compositor, buffer, wm_base, pointer_constraints, rel_pointer_manager, binds>>
winVars  == <<surface, xdg_surface, top_level, mapped>>
seatVars == <<pointers, keyboards>>
lockVars == <<pointer_lock, rel_pointer, lockReqs, relReqs, lockDestroys, relDestroys>>
netVars  == <<sent, sendResult>>
appVars  == <<running, capVars, winVars, seatVars, lockVars, netVars, surface_coords, enters>>

vars == <<pc, queue, last, batch, envVars, appVars>>

(* ------------------------------ bounds --------------------------------- *)

\* events the compositor sends after start-up
MaxEvents == 4

\* events that can wait in the connection at once
MaxQueue == 2

(* ----------------------------- constants ------------------------------- *)

\* Option::None
None == 0

\* the ESC key code of the release trigger
ReleaseKey == 1

\* size of the datagram buffer
FrameLen == 20

(* --------------------------- byte arithmetic --------------------------- *)

RECURSIVE Reverse(_)
Reverse(s) == IF s = <<>> THEN <<>> ELSE Append(Reverse(Tail(s)), Head(s))

Zeros(n) == [i \in 1..n |-> 0]

\* a | b on two bytes, bit by bit
RECURSIVE BitOr(_, _, _)
BitOr(a, b, n) ==
    IF n = 0 THEN 0
    ELSE (IF a % 2 = 1 \/ b % 2 = 1 THEN 1 ELSE 0) + 2 * BitOr(a \div 2, b \div 2, n - 1)

\* x | y on two integers of the same width
Or(x, y) == [i \in 1..Len(x) |-> BitOr(x[i], y[i], 8)]

\* `v as u64` of a u32: zero extension
AsU64(v) == Zeros(4) \o v

\* x << 32 on a u64: the high half is shifted out
Shl32(x) == SubSeq(x, 5, 8) \o Zeros(4)

\* x / d for a small divisor d: schoolbook division, most significant byte first
RECURSIVE DivStep(_, _, _, _)
DivStep(x, d, r, q) ==
    IF x = <<>> THEN q
    ELSE LET cur == r * 256 + Head(x)
         IN  DivStep(Tail(x), d, cur % d, Append(q, cur \div d))

DivSmall(x, d) == DivStep(x, d, 0, <<>>)

\* `t as u32` of a u64: the low 32 bits
AsU32(t) == SubSeq(t, 5, 8)

(* ----------------------------- wire frame ------------------------------ *)

\* to_ne_bytes: the bytes of a value in the target's order
ToNeBytes(v) == IF endian = "little" THEN Reverse(v) ELSE v

\* from_ne_bytes: the value of bytes in the target's order
FromNeBytes(b) == IF endian = "little" THEN Reverse(b) ELSE b

\* buf[from..to].copy_from_slice(src), offsets counted from 0, `to` excluded
CopyFromSlice(buf, from, to, src) ==
    [i \in 1..Len(buf) |-> IF i > from /\ i <= to THEN src[i - from] ELSE buf[i]]

\* variant: the fields laid out as an aligned struct, the doubles on 8-byte
\* boundaries behind 4 bytes of padding
FramePadded(time, x, y) ==
    LET buf0 == Zeros(FrameLen + 4)
        buf1 == CopyFromSlice(buf0, 0, 4, ToNeBytes(time))
        buf2 == CopyFromSlice(buf1, 8, 16, ToNeBytes(x))
    IN  CopyFromSlice(buf2, 16, 24, ToNeBytes(y))

\* variant: the two displacements written in each other's place
FrameSwapped(time, x, y) ==
    LET buf0 == Zeros(FrameLen)
        buf1 == CopyFromSlice(buf0, 0, 4, ToNeBytes(time))
        buf2 == CopyFromSlice(buf1, 4, 12, ToNeBytes(y))
    IN  CopyFromSlice(buf2, 12, 20, ToNeBytes(x))

\* the datagram send_motion_event hands to the socket
Frame(time, x, y) ==
    LET time_bytes == ToNeBytes(time)
        x_bytes    == ToNeBytes(x)
        y_bytes    == ToNeBytes(y)
        buf0       == Zeros(FrameLen)
        buf1       == CopyFromSlice(buf0, 0, 4, time_bytes)
        buf2       == CopyFromSlice(buf1, 4, 12, x_bytes)
    IN  CopyFromSlice(buf2, 12, 20, y_bytes)

\* variant: the halves are divided one by one and combined afterwards
MotionTimeHalves(utime_hi, utime_lo) ==
    Or(Shl32(AsU64(DivSmall(utime_hi, 1000))), AsU64(DivSmall(utime_lo, 1000)))

\* ((utime_hi as u64) << 32 | utime_lo as u64) / 1000
MotionTime(utime_hi, utime_lo) ==
    DivSmall(Or(Shl32(AsU64(utime_hi)), AsU64(utime_lo)), 1000)

(* ------------------------------- events -------------------------------- *)

Interfaces ==
    {"wl_compositor", "wl_shm", "wl_seat", "xdg_wm_base",
     "zwp_pointer_constraints_v1", "zwp_relative_pointer_manager_v1", "wl_output"}

\* the interfaces the registry handler binds
Bound == Interfaces \ {"wl_output"}

\* the globals a compositor may advertise in the protocol runs
Advertised == Bound

NoEv             == [type |-> "none"]
GlobalEv(i)      == [type |-> "global", interface |-> i]
CapabilitiesEv(c) == [type |-> "capabilities", capabilities |-> c]
EnterEv(xy)      == [type |-> "enter", surface_x |-> xy[1], surface_y |-> xy[2]]
LeaveEv          == [type |-> "leave"]
KeyEv(k, s)      == [type |-> "key", key |-> k, state |-> s]
MotionEv(s)      == [type |-> "relative_motion", utime_hi |-> s[1], utime_lo |-> s[2],
                     dx_unaccel |-> s[3], dy_unaccel |-> s[4]]
CloseEv          == [type |-> "close"]
ConfigureEv      == [type |-> "configure"]
PingEv           == [type |-> "ping"]
LockedEv(l)      == [type |-> "locked_pointer", locked |-> l]

\* seat capability sets the compositor reports
CapabilitySets == {{"pointer"}, {"keyboard"}, {"pointer", "keyboard"}}

\* where the pointer enters the surface
EnterCoords == {<<1, 2>>}

\* key codes: ESC and the A key; key states
Keys == {ReleaseKey, 30}
KeyStates == {"pressed", "released"}

\* bit patterns of doubles: 1.5, -2.25, a quiet NaN, +infinity, and one with
\* eight different non-zero bytes
F64_1_5   == <<63, 248, 0, 0, 0, 0, 0, 0>>
F64_m2_25 == <<192, 2, 0, 0, 0, 0, 0, 0>>
F64_NaN   == <<127, 248, 0, 0, 0, 0, 0, 0>>
F64_Inf   == <<127, 240, 0, 0, 0, 0, 0, 0>>
F64_Mixed == <<1, 2, 3, 4, 5, 6, 7, 8>>

\* 32-bit halves of the microsecond timestamp: 0, 1, 999, 1000, 5000000,
\* 0x01020304, 0xFFFFFFFF
U32_0       == <<0, 0, 0, 0>>
U32_1       == <<0, 0, 0, 1>>
U32_999     == <<0, 0, 3, 231>>
U32_1000    == <<0, 0, 3, 232>>
U32_5000000 == <<0, 76, 75, 64>>
U32_Mixed   == <<1, 2, 3, 4>>
U32_Max     == <<255, 255, 255, 255>>

\* the motion samples the compositor sends in the protocol runs
Samples ==
    {<<U32_0, U32_5000000, F64_1_5, F64_m2_25>>,
     <<U32_1, U32_Mixed, F64_NaN, F64_Mixed>>}

\* the motion samples of the encoding runs
FrameSamples ==
    {U32_0, U32_1, U32_999, U32_Mixed, U32_Max}
      \X {U32_0, U32_999, U32_1000, U32_5000000, U32_Mixed, U32_Max}
      \X {F64_1_5, F64_NaN, F64_Inf, F64_Mixed}
      \X {F64_m2_25, F64_NaN, F64_Mixed}

\* byte orders a target can have; the protocol runs are those of a little-endian
\* build (x86-64), the encoding runs cover both
Endians == {"little", "big"}
ProtocolEndian == "little"

(* ---------------------------- initial state ---------------------------- *)

Init ==
    /\ pc = "roundtrip"
    /\ running = TRUE
    /\ queue = <<>>
    /\ last = NoEv
    /\ batch = 0
    /\ synced = FALSE
    /\ announced = {}
    /\ emitted = 0
    /\ compositor = None
    /\ buffer = None
    /\ wm_base = None
    /\ surface = None
    /\ xdg_surface = None
    /\ top_level = None
    /\ mapped = FALSE
    /\ pointer_constraints = None
    /\ rel_pointer_manager = None
    /\ pointer_lock = None
    /\ rel_pointer = None
    /\ surface_coords = <<0, 0>>
    /\ binds = [i \in Interfaces |-> 0]
    /\ pointers = 0
    /\ keyboards = 0
    /\ lockReqs = 0
    /\ relReqs = 0
    /\ lockDestroys = 0
    /\ relDestroys = 0
    /\ enters = 0
    /\ sent = <<>>
    /\ sendResult = "none"
    /\ endian = ProtocolEndian

(* ---------------------------- the compositor --------------------------- *)

\* wl_registry.global for an interface, in answer to get_registry
Announce(i) ==
    /\ pc = "roundtrip"
    /\ ~synced
    /\ i \notin announced
    /\ Len(queue) < MaxQueue
    /\ queue' = Append(queue, GlobalEv(i))
    /\ announced' = announced \cup {i}
    /\ UNCHANGED <<pc, last, batch, synced, emitted, endian, appVars>>

\* wl_registry.global for one more global of an interface announced before
Reannounce(i) ==
    /\ pc = "roundtrip"
    /\ ~synced
    /\ i \in announced
    /\ emitted < MaxEvents
    /\ Len(queue) < MaxQueue
    /\ queue' = Append(queue, GlobalEv(i))
    /\ emitted' = emitted + 1
    /\ UNCHANGED <<pc, last, batch, synced, announced, endian, appVars>>

\* wl_callback.done for the roundtrip's sync, after the last global
SyncDone ==
    /\ pc = "roundtrip"
    /\ ~synced
    /\ synced' = TRUE
    /\ UNCHANGED <<pc, queue, last, batch, announced, emitted, endian, appVars>>

\* an event sent while the program is in its dispatch loop
Emit(e) ==
    /\ pc \in {"loop", "dispatch"}
    /\ emitted < MaxEvents
    /\ Len(queue) < MaxQueue
    /\ queue' = Append(queue, e)
    /\ emitted' = emitted + 1
    /\ UNCHANGED <<pc, last, batch, synced, announced, endian, appVars>>

\* xdg_surface.configure: the first configure of the window, not yet acknowledged
SendConfigure ==
    /\ pc \in {"loop", "dispatch"}
    /\ xdg_surface /= None
    /\ ~mapped
    /\ \A k \in 1..Len(queue) : queue[k].type /= "configure"
    /\ Len(queue) < MaxQueue
    /\ queue' = Append(queue, ConfigureEv)
    /\ UNCHANGED <<pc, last, batch, envVars, appVars>>

SendCapabilities == \E c \in CapabilitySets : binds["wl_seat"] > 0 /\ Emit(CapabilitiesEv(c))
SendPing         == wm_base /= None /\ Emit(PingEv)
SendClose        == top_level /= None /\ Emit(CloseEv)
\* pointer focus needs a mapped surface and a wl_pointer to report to
SendEnter        == \E xy \in EnterCoords : pointers > 0 /\ mapped /\ Emit(EnterEv(xy))
SendLeave        == pointers > 0 /\ mapped /\ Emit(LeaveEv)
SendKey          == \E k \in Keys, s \in KeyStates : keyboards > 0 /\ mapped /\ Emit(KeyEv(k, s))
\* the compositor reports motion on a relative pointer it has not seen destroyed
SendMotion       == \E s \in Samples : rel_pointer /= None /\ Emit(MotionEv(s))
SendLocked       == \E l \in BOOLEAN : pointer_lock /= None /\ Emit(LockedEv(l))

(* ------------------------------- main() -------------------------------- *)

\* a handler can run: roundtrip and blocking_dispatch hand queued events over
Dispatching(t) ==
    /\ queue /= <<>>
    /\ Head(queue).type = t
    /\ pc = "roundtrip" \/ (pc = "dispatch" /\ batch > 0)

\* the handler returns (or panics): the event is consumed, and blocking_dispatch
\* returns to the loop after the last event it had read
Handled(panics) ==
    /\ queue' = Tail(queue)
    /\ last' = Head(queue)
    /\ pc' = IF panics THEN "panicked"
             ELSE IF pc = "dispatch" /\ batch = 1 THEN "loop" ELSE pc
    /\ batch' = IF pc = "dispatch" /\ ~panics THEN batch - 1 ELSE batch

\* roundtrip returns; the surface is made with the compositor, then the shell
\* surface and the toplevel with the shell; each unwrap of a global that was
\* never bound panics
RoundtripReturn ==
    /\ pc = "roundtrip"
    /\ synced
    /\ queue = <<>>
    /\ pc' = IF compositor = None \/ wm_base = None THEN "panicked" ELSE "loop"
    /\ surface' = IF compositor /= None THEN 1 ELSE surface
    /\ xdg_surface' = IF compositor /= None /\ wm_base /= None THEN 1 ELSE xdg_surface
    /\ top_level' = IF compositor /= None /\ wm_base /= None THEN 1 ELSE top_level
    /\ UNCHANGED <<queue, last, batch, envVars, running, capVars, mapped, seatVars,
                   lockVars, netVars, surface_coords, enters>>

\* variant: the loop does not look at the flag
LoopContinuesAlways == TRUE

\* while app.running
LoopContinues == running

\* the loop goes on: blocking_dispatch waits for events and reads them
BlockingDispatch ==
    /\ pc = "loop"
    /\ LoopContinues
    /\ queue /= <<>>
    /\ pc' = "dispatch"
    /\ batch' = Len(queue)
    /\ UNCHANGED <<queue, last, envVars, appVars>>

\* the loop ends: main returns
Exit ==
    /\ pc = "loop"
    /\ ~LoopContinues
    /\ pc' = "exited"
    /\ UNCHANGED <<queue, last, batch, envVars, appVars>>

(* ------------------------------ handlers ------------------------------- *)

\* Dispatch<WlRegistry>: bind what is recognised and store it
RegistryGlobal ==
    /\ Dispatching("global")
    /\ LET i  == Head(queue).interface
           id == binds[i] + 1
       IN  /\ binds' = IF i \in Bound THEN [binds EXCEPT ![i] = id] ELSE binds
           /\ compositor' = IF i = "wl_compositor" THEN id ELSE compositor
           /\ buffer' = IF i = "wl_shm" THEN id ELSE buffer
           /\ wm_base' = IF i = "xdg_wm_base" THEN id ELSE wm_base
           /\ pointer_constraints' =
                  IF i = "zwp_pointer_constraints_v1" THEN id ELSE pointer_constraints
           /\ rel_pointer_manager' =
                  IF i = "zwp_relative_pointer_manager_v1" THEN id ELSE rel_pointer_manager
    /\ Handled(FALSE)
    /\ UNCHANGED <<envVars, running, winVars, seatVars, lockVars, netVars,
                   surface_coords, enters>>

\* Dispatch<XdgWmBase>: answer the ping
WmBasePing ==
    /\ Dispatching("ping")
    /\ Handled(FALSE)
    /\ UNCHANGED <<envVars, appVars>>

\* Dispatch<XdgSurface>: acknowledge, attach the buffer if there is one, commit
XdgSurfaceConfigure ==
    /\ Dispatching("configure")
    /\ mapped' = (mapped \/ buffer /= None)
    /\ Handled(surface = None)
    /\ UNCHANGED <<envVars, running, capVars, surface, xdg_surface, top_level, seatVars,
                   lockVars, netVars, surface_coords, enters>>

\* Dispatch<XdgToplevel>: close clears the running flag
ToplevelClose ==
    /\ Dispatching("close")
    /\ running' = FALSE
    /\ Handled(FALSE)
    /\ UNCHANGED <<envVars, capVars, winVars, seatVars, lockVars, netVars,
                   surface_coords, enters>>

\* Dispatch<WlSeat>: ask for the devices the capabilities list
SeatCapabilities ==
    /\ Dispatching("capabilities")
    /\ LET capabilities == Head(queue).capabilities
       IN  /\ pointers' = IF "pointer" \in capabilities THEN pointers + 1 ELSE pointers
           /\ keyboards' = IF "keyboard" \in capabilities THEN keyboards + 1 ELSE keyboards
    /\ Handled(FALSE)
    /\ UNCHANGED <<envVars, running, capVars, winVars, lockVars, netVars,
                   surface_coords, enters>>

\* variant: the lock is requested on every enter, held or not
NeedsLockAlways == TRUE

\* if app.pointer_lock.is_none()
NeedsLock == pointer_lock = None

\* variant: the test is inverted, is_some() for is_none()
NeedsRelInverted == rel_pointer /= None

\* if app.rel_pointer.is_none()
NeedsRel == rel_pointer = None

\* Dispatch<WlPointer>, Enter: take the lock and the relative pointer that are
\* not held; each unwrap of a manager that was never bound panics
PointerEnter ==
    /\ Dispatching("enter")
    /\ LET e          == Head(queue)
           lockPanics == NeedsLock /\ (pointer_constraints = None \/ surface = None)
           takeLock   == NeedsLock /\ ~lockPanics
           relPanics  == ~lockPanics /\ NeedsRel /\ rel_pointer_manager = None
           takeRel    == ~lockPanics /\ NeedsRel /\ ~relPanics
       IN  /\ surface_coords' = <<e.surface_x, e.surface_y>>
           /\ lockReqs' = IF takeLock THEN lockReqs + 1 ELSE lockReqs
           /\ pointer_lock' = IF takeLock THEN lockReqs + 1 ELSE pointer_lock
           /\ relReqs' = IF takeRel THEN relReqs + 1 ELSE relReqs
           /\ rel_pointer' = IF takeRel THEN relReqs + 1 ELSE rel_pointer
           /\ Handled(lockPanics \/ relPanics)
    /\ enters' = enters + 1
    /\ UNCHANGED <<envVars, running, capVars, winVars, seatVars, lockDestroys,
                   relDestroys, netVars>>

\* variant: the lock and the relative pointer are dropped when the pointer leaves
PointerLeaveReleases ==
    /\ Dispatching("leave")
    /\ lockDestroys' = IF pointer_lock /= None THEN lockDestroys + 1 ELSE lockDestroys
    /\ relDestroys' = IF rel_pointer /= None THEN relDestroys + 1 ELSE relDestroys
    /\ pointer_lock' = None
    /\ rel_pointer' = None
    /\ Handled(FALSE)
    /\ UNCHANGED <<envVars, running, capVars, winVars, seatVars, lockReqs, relReqs,
                   netVars, surface_coords, enters>>

\* Dispatch<WlPointer>, any other event: nothing
PointerOther ==
    /\ Dispatching("leave")
    /\ Handled(FALSE)
    /\ UNCHANGED <<envVars, appVars>>

\* variant: destroy is called on key 1 without looking at what is held
KeyDropsLockUnguarded(e) == e.key = ReleaseKey

\* key == 1, and a lock is held: it is destroyed
KeyDropsLock(e) == e.key = ReleaseKey /\ pointer_lock /= None

\* variant: the key releases the lock only and keeps the relative pointer
KeyDropsRelNever(e) == FALSE

\* key == 1, and a relative pointer is held: it is destroyed
KeyDropsRel(e) == e.key = ReleaseKey /\ rel_pointer /= None

\* variant: the release key clears both fields and destroys neither object
KeyboardKeyForgets ==
    /\ Dispatching("key")
    /\ LET dropLock == KeyDropsLock(Head(queue))
           dropRel  == KeyDropsRel(Head(queue))
       IN  /\ pointer_lock' = IF dropLock THEN None ELSE pointer_lock
           /\ rel_pointer' = IF dropRel THEN None ELSE rel_pointer
    /\ Handled(FALSE)
    /\ UNCHANGED <<envVars, running, capVars, winVars, seatVars, lockReqs, relReqs,
                   lockDestroys, relDestroys, netVars, surface_coords, enters>>

\* Dispatch<WlKeyboard>, Key: key 1 destroys the lock and the relative pointer
\* that are held
KeyboardKey ==
    /\ Dispatching("key")
    /\ LET dropLock == KeyDropsLock(Head(queue))
           dropRel  == KeyDropsRel(Head(queue))
       IN  /\ lockDestroys' = IF dropLock THEN lockDestroys + 1 ELSE lockDestroys
           /\ pointer_lock' = IF dropLock THEN None ELSE pointer_lock
           /\ relDestroys' = IF dropRel THEN relDestroys + 1 ELSE relDestroys
           /\ rel_pointer' = IF dropRel THEN None ELSE rel_pointer
    /\ Handled(FALSE)
    /\ UNCHANGED <<envVars, running, capVars, winVars, seatVars, lockReqs, relReqs,
                   netVars, surface_coords, enters>>

\* Dispatch<ZwpLockedPointerV1>: locked and unlocked are both ignored
LockedPointerEvent ==
    /\ Dispatching("locked_pointer")
    /\ Handled(FALSE)
    /\ UNCHANGED <<envVars, appVars>>

\* outcomes of UdpSocket::send_to
SendOutcomes == {"ok", "err"}

\* variant: the frame is handed to the socket a second time
RelativeMotionRepeated ==
    /\ Dispatching("relative_motion")
    /\ LET e    == Head(queue)
           time == MotionTime(e.utime_hi, e.utime_lo)
           f    == Frame(AsU32(time), e.dx_unaccel, e.dy_unaccel)
       IN  sent' = sent \o <<f, f>>
    /\ \E r \in SendOutcomes :
          /\ sendResult' = r
          /\ Handled(r = "err")
    /\ UNCHANGED <<envVars, running, capVars, winVars, seatVars, lockVars,
                   surface_coords, enters>>

\* Dispatch<ZwpRelativePointerV1>, RelativeMotion: convert the time stamp, build
\* the frame and send it; send_to's result is unwrapped
RelativeMotion ==
    /\ Dispatching("relative_motion")
    /\ LET e    == Head(queue)
           time == MotionTime(e.utime_hi, e.utime_lo)
       IN  sent' = Append(sent, Frame(AsU32(time), e.dx_unaccel, e.dy_unaccel))
    /\ \E r \in SendOutcomes :
          /\ sendResult' = r
          /\ Handled(r = "err")
    /\ UNCHANGED <<envVars, running, capVars, winVars, seatVars, lockVars,
                   surface_coords, enters>>

(* ---------------------------- specifications --------------------------- *)

Compositor ==
    \/ \E i \in Advertised : Announce(i)
    \/ SyncDone
    \/ SendConfigure
    \/ SendCapabilities
    \/ SendPing
    \/ SendClose
    \/ SendEnter
    \/ SendLeave
    \/ SendKey
    \/ SendMotion
    \/ SendLocked

Program ==
    \/ RoundtripReturn
    \/ BlockingDispatch
    \/ Exit
    \/ RegistryGlobal
    \/ WmBasePing
    \/ XdgSurfaceConfigure
    \/ ToplevelClose
    \/ SeatCapabilities
    \/ PointerEnter
    \/ PointerOther
    \/ KeyboardKey
    \/ LockedPointerEvent
    \/ RelativeMotion

Next == Compositor \/ Program

Spec == Init /\ [][Next]_vars

(* The encoding runs: the program is in its dispatch loop with the pointer  *)
(* locked, and blocking_dispatch has read one relative-motion event whose   *)
(* fields range over FrameSamples; the build is of either byte order.       *)
FrameState(s, order) ==
    /\ pc = "dispatch"
    /\ running = TRUE
    /\ queue = <<MotionEv(s)>>
    /\ last = EnterEv(<<1, 2>>)
    /\ batch = 1
    /\ synced = TRUE
    /\ announced = Advertised
    /\ emitted = 3
    /\ compositor = 1
    /\ buffer = 1
    /\ wm_base = 1
    /\ surface = 1
    /\ xdg_surface = 1
    /\ top_level = 1
    /\ mapped = TRUE
    /\ pointer_constraints = 1
    /\ rel_pointer_manager = 1
    /\ pointer_lock = 1
    /\ rel_pointer = 1
    /\ surface_coords = <<1, 2>>
    /\ binds = [i \in Interfaces |-> IF i \in Advertised THEN 1 ELSE 0]
    /\ pointers = 1
    /\ keyboards = 1
    /\ lockReqs = 1
    /\ relReqs = 1
    /\ lockDestroys = 0
    /\ relDestroys = 0
    /\ enters = 1
    /\ sent = <<>>
    /\ sendResult = "none"
    /\ endian = order

FrameInit == \E s \in FrameSamples, order \in Endians : FrameState(s, order)

FrameNext == RelativeMotion

SpecFrame == FrameInit /\ [][FrameNext]_vars

(* ------------------------------ properties ----------------------------- *)

\* the states of the pointer capture controller
Locked == pointer_lock /= None /\ rel_pointer /= None
Free   == pointer_lock = None /\ rel_pointer = None

\* both capabilities that locking needs are bound
ManagersBound == pointer_constraints /= None /\ rel_pointer_manager /= None

\* this step is the handler of the event `e` at the head of the queue
Handles(e) == queue /= <<>> /\ Head(queue) = e /\ queue' = Tail(queue)

\* this step is the handler of an event of type `t`
HandlesType(t) == queue /= <<>> /\ Head(queue).type = t /\ queue' = Tail(queue)

\* this step hands a datagram to the socket
Sends == Len(sent') = Len(sent) + 1

\* C1: with both managers bound, at most one lock and one relative-motion
\* channel are held after any events; as long as nothing was released, the
\* enters handled so far have issued exactly one lock request and one channel
\* request and left the controller Locked; and an enter handled while Locked
\* issues no request.
C1_EnterIdempotent ==
    /\ [](ManagersBound =>
            /\ lockReqs - lockDestroys \in {0, 1}
            /\ relReqs - relDestroys \in {0, 1}
            /\ (enters >= 1 /\ lockDestroys = 0 /\ relDestroys = 0) =>
                  (lockReqs = 1 /\ relReqs = 1 /\ Locked))
    /\ [][(HandlesType("enter") /\ ManagersBound /\ Locked) =>
            UNCHANGED <<lockReqs, relReqs, pointer_lock, rel_pointer>>]_vars

\* two enters were handled with no release, and one lock request was issued
C1_Witness ==
    /\ ManagersBound
    /\ enters >= 2
    /\ lockDestroys = 0
    /\ lockReqs = 1
    /\ relReqs = 1
    /\ Locked

\* C2: in every reachable state the pointer lock is held exactly when the
\* relative-motion channel is held, also when only one manager was announced.
C2_LockIffChannel == (pointer_lock /= None) <=> (rel_pointer /= None)

\* C3: no datagram is handed to the socket while the controller is not Locked.
C3_NoSendWhileFree == [][Sends => Locked]_vars

\* C4: a press of the release key handled while Locked issues one destroy on
\* the lock and one on the channel and leaves the controller Free; and in no
\* Free state is a requested lock or channel left undestroyed.
C4_ReleaseDestroysBoth ==
    /\ [](Free => (lockReqs = lockDestroys /\ relReqs = relDestroys))
    /\ [][(Handles(KeyEv(ReleaseKey, "pressed")) /\ Locked) =>
            /\ lockDestroys' = lockDestroys + 1
            /\ relDestroys' = relDestroys + 1
            /\ Free']_vars

\* the release key was just handled, and the lock and the channel it found
\* are destroyed
C4_Witness ==
    /\ last = KeyEv(ReleaseKey, "pressed")
    /\ Free
    /\ lockReqs = 1 /\ lockDestroys = 1
    /\ relReqs = 1 /\ relDestroys = 1

\* C5: a release-key event handled while Free changes nothing of the program's
\* state and issues no request, so repeated releases act as one.
C5_ReleaseIdempotent ==
    [][(\E s \in KeyStates : Handles(KeyEv(ReleaseKey, s)) /\ Free) =>
          UNCHANGED appVars]_vars

\* the release key was just handled and nothing was ever destroyed: it found
\* the controller Free and left it so
C5_Witness ==
    /\ last = KeyEv(ReleaseKey, "pressed")
    /\ Free
    /\ lockDestroys = 0
    /\ relDestroys = 0
    /\ lockReqs = 0
    /\ relReqs = 0

\* C6: an enter handled while a manager capability is not bound is ignored:
\* no panic, no lock or channel request, the controller stays Free.
C6_MissingManagerIgnored ==
    (last.type = "enter" /\ ~ManagersBound) =>
        (pc /= "panicked" /\ lockReqs = 0 /\ relReqs = 0 /\ Free)

\* C7: a send that fails leaves the program running and the lock state as it was.
C7_SendFailureNonFatal ==
    [][(Sends /\ sendResult' = "err") =>
          (pc' /= "panicked" /\ UNCHANGED <<pointer_lock, rel_pointer>>)]_vars

(* The remaining properties are about the frame of the motion event handled *)
(* last: `last` still holds the event's fields, `sent` ends with its frame. *)

LastFrame == sent[Len(sent)]

MotionHandled == last.type = "relative_motion" /\ sent /= <<>>

\* q * m + c for a small m and c, on an integer of any width; a carry out of
\* the top widens the result
RECURSIVE MulAddLow(_, _, _)
MulAddLow(x, m, c) ==
    IF x = <<>> THEN (IF c = 0 THEN <<>> ELSE <<c>>)
    ELSE LET v == Head(x) * m + c
         IN  <<v % 256>> \o MulAddLow(Tail(x), m, v \div 256)

MulAdd(q, m, c) == Reverse(MulAddLow(Reverse(q), m, c))

\* the time field of a frame, as a 32-bit integer
WireTime(f) == FromNeBytes(SubSeq(f, 1, 4))

\* C8: the time on the wire is floor((utime_hi * 2^32 + utime_lo) / 1000) mod
\* 2^32.  With Q the 64-bit number whose low half is the wire time and whose
\* high half is floor(utime_hi / 1000), Q * 1000 + r is the microsecond count
\* for a remainder r below 1000: Q is the quotient, the wire time its low
\* 32 bits.  utime_hi = 0, utime_lo = 5000000 gives 5000.
C8_TimeConversion ==
    MotionHandled =>
        LET micros == last.utime_hi \o last.utime_lo
            Q      == DivSmall(last.utime_hi, 1000) \o WireTime(LastFrame)
        IN  /\ \E r \in 0..999 : MulAdd(Q, 1000, r) = micros
            /\ (last.utime_hi = U32_0 /\ last.utime_lo = U32_5000000) =>
                   WireTime(LastFrame) = <<0, 0, 19, 136>>

\* the time stamp 0xFFFFFFFF000003E7 was converted: 18446744069414585 ms, of
\* which the wire holds the low 32 bits, 1267015353
C8_Witness ==
    /\ MotionHandled
    /\ last.utime_hi = U32_Max
    /\ last.utime_lo = U32_999
    /\ WireTime(LastFrame) = <<75, 133, 30, 185>>

\* the (time, dx, dy) triples frames are compared over
FrameInputs ==
    {U32_0, U32_1, U32_1000, U32_Mixed, U32_Max, <<0, 0, 19, 136>>}
      \X {F64_1_5, F64_m2_25, F64_NaN, F64_Inf, F64_Mixed}
      \X {F64_1_5, F64_m2_25, F64_NaN, F64_Inf, F64_Mixed}

\* C9: bytes 0..4, 4..12 and 12..20 of the frame, each decoded from the target's
\* byte order, are the 32-bit time passed to send_motion_event and the bit
\* patterns of dx and dy; and no other (time, dx, dy) gives the same frame.
C9_FrameRoundTrip ==
    MotionHandled =>
        LET time == AsU32(MotionTime(last.utime_hi, last.utime_lo))
            f    == LastFrame
        IN  /\ FromNeBytes(SubSeq(f, 1, 4)) = time
            /\ FromNeBytes(SubSeq(f, 5, 12)) = last.dx_unaccel
            /\ FromNeBytes(SubSeq(f, 13, 20)) = last.dy_unaccel
            /\ \A i \in FrameInputs :
                   Frame(i[1], i[2], i[3]) = f =>
                       i = <<time, last.dx_unaccel, last.dy_unaccel>>

\* a frame with two different displacements of mixed bytes was decoded on a
\* big-endian target
C9_Witness ==
    /\ MotionHandled
    /\ endian = "big"
    /\ last.dx_unaccel = F64_Mixed
    /\ last.dy_unaccel = F64_m2_25
    /\ FromNeBytes(SubSeq(LastFrame, 5, 12)) = F64_Mixed

\* C10: every frame handed to the socket is 20 bytes: the 4 bytes of the time,
\* then the 8 of dx, then the 8 of dy, and nothing else, for NaN and infinite
\* displacements too.
C10_FrameLayout ==
    MotionHandled =>
        LET time == AsU32(MotionTime(last.utime_hi, last.utime_lo))
        IN  /\ Len(LastFrame) = 20
            /\ LastFrame = ToNeBytes(time) \o ToNeBytes(last.dx_unaccel)
                              \o ToNeBytes(last.dy_unaccel)
            /\ \A k \in 1..Len(sent) : Len(sent[k]) = 20

\* a frame with an infinite dx and a NaN dy was handed to the socket
C10_Witness ==
    /\ MotionHandled
    /\ last.dx_unaccel = F64_Inf
    /\ last.dy_unaccel = F64_NaN
    /\ Len(LastFrame) = 20

\* C11: over any seat capability notifications the pointer device is requested
\* once and the keyboard device once; a notification that lists a device again
\* issues no get_pointer / get_keyboard.
C11_DevicesRequestedOnce == pointers <= 1 /\ keyboards <= 1

(* The registry runs: the compositor announces any interface, the ones the  *)
(* program does not know and further globals of one interface included, and *)
(* the program goes as far as creating its window.                          *)
RegistryNext ==
    \/ \E i \in Interfaces : Announce(i)
    \/ \E i \in Interfaces : Reannounce(i)
    \/ SyncDone
    \/ RegistryGlobal
    \/ RoundtripReturn

SpecRegistry == Init /\ [][RegistryNext]_vars

\* C12: each recognised kind is bound at most once, at its first announcement;
\* a later announcement of a bound kind issues no bind and does not replace
\* what is stored; an unrecognised interface is never bound.
C12_BoundOnce ==
    /\ \A i \in Bound : binds[i] <= 1
    /\ binds["wl_output"] = 0
    /\ \A stored \in {compositor, buffer, wm_base, pointer_constraints,
                      rel_pointer_manager} : stored \in {None, 1}

\* main has left the roundtrip
Bootstrapped == pc /= "roundtrip"

\* C13: when the compositor or the shell global was not announced, bootstrap
\* ends without a panic and before a surface is requested; when both are
\* bound, one surface, one shell surface and one toplevel exist once the
\* dispatch loop is entered.
C13_BootstrapChecked ==
    /\ (Bootstrapped /\ (compositor = None \/ wm_base = None)) =>
           (pc /= "panicked" /\ surface = None)
    /\ pc \in {"loop", "dispatch", "exited"} =>
           (surface = 1 /\ xdg_surface = 1 /\ top_level = 1)

\* C14: a close event clears the running flag, which is never set again; the
\* dispatch call that handled it runs to the last event it had read; after it
\* the loop makes no further dispatch call and main can only return; and main
\* returns only with the flag cleared, which only a close event does.
C14_CloseEndsLoop ==
    /\ [][HandlesType("close") => ~running']_vars
    /\ [][~running => ~running']_vars
    /\ [][(running /\ ~running') => HandlesType("close")]_vars
    /\ [][(pc = "dispatch" /\ pc' \notin {"dispatch", "panicked"}) =>
            (batch = 1 /\ pc' = "loop")]_vars
    /\ [](pc = "dispatch" => (batch >= 1 /\ Len(queue) >= batch))
    /\ [][(~running /\ pc = "loop") => pc' \in {"loop", "exited"}]_vars
    /\ []((~running /\ pc = "loop") => ENABLED Exit)
    /\ [](pc = "exited" => ~running)

\* main has returned, and the event handled last came after the close event:
\* it was handled in the dispatch call that had read both
C14_Witness ==
    /\ pc = "exited"
    /\ ~running
    /\ last.type \notin {"close", "none"}

\* C15: a key event that is not a press of the release key (another key, or a
\* key reported as released, the release key too) leaves the lock and the
\* channel held and issues no destroy.
C15_OnlyPressReleases ==
    [][(\E k \in Keys, s \in KeyStates :
            Handles(KeyEv(k, s)) /\ ~(k = ReleaseKey /\ s = "pressed")) =>
          UNCHANGED lockVars]_vars

\* C16: whenever the controller is Free with both managers bound, the enter
\* handled next issues one new lock request and one new channel request and
\* leaves the controller Locked; a motion event handled while Locked is sent.
C16_CaptureReestablished ==
    /\ [][(HandlesType("enter") /\ Free /\ ManagersBound) =>
            /\ lockReqs' = lockReqs + 1
            /\ relReqs' = relReqs + 1
            /\ Locked'
            /\ pc' /= "panicked"]_vars
    /\ [][(HandlesType("relative_motion") /\ Locked) => Sends]_vars

\* the pointer entered again after a release: a second lock and a second
\* channel are held
C16_Witness ==
    /\ last.type = "enter"
    /\ Locked
    /\ enters = 2
    /\ lockReqs = 2 /\ relReqs = 2
    /\ lockDestroys = 1 /\ relDestroys = 1

\* C17: after the compositor's unlocked event on the lock object the controller
\* is Free, so that the next enter requests a lock again.
C17_UnlockedFrees == [][Handles(LockedEv(FALSE)) => Free']_vars

\* the events of the pointer other than enter, of the window and the shell,
\* and of the lock object
PassiveEvents == {"leave", "configure", "ping", "close", "locked_pointer"}

\* C18: the handlers of the pointer's other events, of the window and shell
\* events (close too) and of the lock object's events leave pointer_lock and
\* rel_pointer as they are and destroy nothing; a Locked controller stops
\* being Locked only in the handler of the release key.
C18_OnlyKeyReleases ==
    /\ [][(\E t \in PassiveEvents : HandlesType(t)) =>
            UNCHANGED <<pointer_lock, rel_pointer, lockDestroys, relDestroys>>]_vars
    /\ [][(Locked /\ ~Locked') =>
            (HandlesType("key") /\ Head(queue).key = ReleaseKey)]_vars

\* the pointer left the surface and the controller is still Locked
C18_Witness ==
    /\ last = LeaveEv
    /\ Locked
    /\ lockDestroys = 0
    /\ relDestroys = 0

\* frame `f` holds the time stamp of event `e` in milliseconds (its low 32
\* bits) and the bit patterns of the event's unaccelerated displacement
CarriesSample(f, e) ==
    /\ Len(f) = FrameLen
    /\ LET Q == DivSmall(e.utime_hi, 1000) \o WireTime(f)
       IN  \E r \in 0..999 : MulAdd(Q, 1000, r) = e.utime_hi \o e.utime_lo
    /\ FromNeBytes(SubSeq(f, 5, 12)) = e.dx_unaccel
    /\ FromNeBytes(SubSeq(f, 13, 20)) = e.dy_unaccel

\* C19: the handler of a relative-motion event taken while Locked hands the
\* socket exactly one datagram, in that same step, after all earlier ones and
\* holding that event's own time stamp and unaccelerated displacement;
\* datagrams handed over earlier are never changed, and nothing is handed to
\* the socket in a step that is not the handler of a relative-motion event.
C19_OneDatagramPerMotion ==
    /\ [][(HandlesType("relative_motion") /\ Locked) =>
            /\ Len(sent') = Len(sent) + 1
            /\ SubSeq(sent', 1, Len(sent)) = sent
            /\ CarriesSample(sent'[Len(sent')], Head(queue))]_vars
    /\ [][sent' /= sent => HandlesType("relative_motion")]_vars
    /\ [][~HandlesType("relative_motion") => UNCHANGED netVars]_vars

\* two different motion events were relayed while Locked, the second after
\* the first
C19_Witness ==
    /\ Locked
    /\ last.type = "relative_motion"
    /\ Len(sent) = 2
    /\ sent[1] /= sent[2]
    /\ CarriesSample(sent[2], last)
    /\ ~CarriesSample(sent[1], last)

\* the number of objects a field holds
Held(field) == IF field /= None THEN 1 ELSE 0

\* C20: at every moment the lock requests issued minus the lock destroy calls
\* is the number of locks pointer_lock holds, 0 or 1, and the same for the
\* relative-motion channels and rel_pointer; a field that holds a handle
\* changes only to empty, in a step that destroys exactly one such object.
C20_NoLeakNoDoubleDestroy ==
    /\ [](lockReqs - lockDestroys = Held(pointer_lock))
    /\ [](relReqs - relDestroys = Held(rel_pointer))
    /\ [][(pointer_lock /= None /\ pointer_lock' /= pointer_lock) =>
            (pointer_lock' = None /\ lockDestroys' = lockDestroys + 1)]_vars
    /\ [][(rel_pointer /= None /\ rel_pointer' /= rel_pointer) =>
            (rel_pointer' = None /\ relDestroys' = relDestroys + 1)]_vars
    /\ [][lockDestroys' \in {lockDestroys, lockDestroys + 1}]_vars
    /\ [][relDestroys' \in {relDestroys, relDestroys + 1}]_vars

\* the first lock and channel were requested and destroyed, second ones were
\* requested and are the ones held
C20_Witness ==
    /\ pointer_lock = 2
    /\ rel_pointer = 2
    /\ lockReqs - lockDestroys = 1
    /\ relReqs - relDestroys = 1
    /\ lockDestroys = 1
    /\ relDestroys = 1
    /\ pc = "loop"

====
